---- MODULE Spec2Model ----
(***************************************************************************)
(* Model of app.py: the Streamlit script that gates on a shared password,  *)
(* extracts the text of an uploaded PDF (extract_text_from_pdf), sends it  *)
(* to the text-generation service once and converts the returned synopsis  *)
(* to a Word document, line by line.                                       *)
(*                                                                         *)
(* Python strings that the code scans (page texts, the synopsis) are       *)
(* sequences of one-character strings.  Secrets and the typed password are *)
(* only tested for truthiness and equality and are atoms.                  *)
(***************************************************************************)
EXTENDS Integers, Sequences, FiniteSets, TLC

(* ------------------------------ bounds --------------------------------- *)
\* pages of a document handed directly to extract_text_from_pdf
MaxPages == 3
\* characters of a synopsis handed directly to the docx conversion loop
MaxSynLen == 5
\* pages of a document uploaded in a whole script run
ScriptMaxPages == 1
\* characters of a synopsis returned by the service in a whole script run
ScriptMaxSynLen == 2
\* script runs (Streamlit reruns the script on every interaction)
MaxRuns == 2

(* ------------------------------ strings -------------------------------- *)
NL == "\n"

\* what str.strip() removes
Whitespace == {" ", NL, "\t", "\r"}

RECURSIVE LStrip(_)
LStrip(s) == IF s # <<>> /\ Head(s) \in Whitespace THEN LStrip(Tail(s)) ELSE s

RECURSIVE RStrip(_)
RStrip(s) ==
  IF s # <<>> /\ s[Len(s)] \in Whitespace THEN RStrip(SubSeq(s, 1, Len(s) - 1)) ELSE s

\* str.strip()
Strip(s) == RStrip(LStrip(s))

\* str.startswith(p)
StartsWith(s, p) == Len(s) >= Len(p) /\ SubSeq(s, 1, Len(p)) = p

\* s[n:]
DropFirst(s, n) == IF n >= Len(s) THEN <<>> ELSE SubSeq(s, n + 1, Len(s))

\* Python truthiness of a str value
Truthy(s) == s # <<>>

SeqsUpTo(S, n) == UNION {[1..k -> S] : k \in 0..n}

(* ----------------------------- documents ------------------------------- *)
\* What PyPDF2 does with one page: fetching pdf_reader.pages[i] succeeds or
\* raises; page.extract_text() raises, returns None or returns a string.
\* ocr is what text recognition of the rendered page would read.
PageTexts == {<<>>, <<" ">>, <<"a">>, <<"b", " ">>}

DirectOutcomes ==
  {[tag |-> "raise", s |-> <<>>], [tag |-> "none", s |-> <<>>]}
    \cup {[tag |-> "str", s |-> t] : t \in PageTexts}

OcrTexts == {<<>>, <<"x">>}

Pages ==
  {[fetch |-> "raise", direct |-> [tag |-> "none", s |-> <<>>], ocr |-> <<>>]}
    \cup {[fetch |-> "ok", direct |-> d, ocr |-> o] : d \in DirectOutcomes, o \in OcrTexts}

\* The uploaded bytes: PdfReader(bytes) parses or raises, len(pages) succeeds
\* or raises, and then the pages.
DocsUpTo(n) ==
  {[open |-> "raise", count |-> "ok", pages |-> <<>>],
   [open |-> "ok", count |-> "raise", pages |-> <<>>]}
    \cup {[open |-> "ok", count |-> "ok", pages |-> p] : p \in SeqsUpTo(Pages, n)}

\* st.file_uploader returned None
NoFile == [open |-> "none", count |-> "none", pages |-> <<>>]

(* ------------------------------ secrets -------------------------------- *)
\* st.secrets.get(...) returns None when the key is absent
NoneVal == "<None>"
SecretValues == {NoneVal, "", "s1"}
TypedPasswords == {"", "s1", "s2"}
ApiKeyValues == {NoneVal, "k1"}

\* Python "not v" for a secret
Falsy(v) == v = NoneVal \/ v = ""

(* ------------------------------ service -------------------------------- *)
SynChars == {"#", "-", " ", "a", NL}

SynopsesUpTo(n) == SeqsUpTo(SynChars, n)

\* generate_content raises, answers without candidates (with or without a
\* block reason), answers with a candidate that has no part, or answers with
\* a candidate whose first part holds the synopsis text.
ResponsesUpTo(n) ==
  {[kind |-> "exception", blocked |-> FALSE, text |-> <<>>],
   [kind |-> "no_candidates", blocked |-> FALSE, text |-> <<>>],
   [kind |-> "no_candidates", blocked |-> TRUE, text |-> <<>>],
   [kind |-> "no_parts", blocked |-> FALSE, text |-> <<>>]}
    \cup {[kind |-> "candidates", blocked |-> FALSE, text |-> t] : t \in SynopsesUpTo(n)}

NoResponse == [kind |-> "none", blocked |-> FALSE, text |-> <<>>]

\* st.cache_data holds nothing for the uploaded file
NoEntry == [key |-> NoFile, value |-> <<>>, present |-> FALSE]

(* ------------------------------- state --------------------------------- *)
VARIABLES
  pc,                  \* position of the script run
  runs,                \* script runs started in this session
  correct_password,    \* st.secrets STREAMLIT_PASSWORD
  password,            \* value of the sidebar text input
  gemini_api_key,      \* st.secrets GEMINI_API_KEY
  uploaded_file,       \* value of st.file_uploader
  cache,               \* st.cache_data entry of extract_text_from_pdf
  num_pages,           \* local of extract_text_from_pdf
  page_num,            \* local of extract_text_from_pdf
  text,                \* local of extract_text_from_pdf
  extracted_any_text,  \* local of extract_text_from_pdf
  ocr_entered,         \* the "if not extracted_any_text" branch was taken
  outcome,             \* of the extract_text_from_pdf call: none/returned/raised
  extracted_text,      \* value the call returned
  gen_calls,           \* generate_content calls made in this run
  response,            \* what generate_content answered
  synopsis,            \* response.candidates[0].content.parts[0].text
  lines,               \* lines of the synopsis not yet converted
  blocks,              \* body of the docx Document, in order
  download_offered,    \* st.download_button was rendered
  shown                \* st.error / st.warning / st.success messages of this run

vars == <<pc, runs, correct_password, password, gemini_api_key, uploaded_file,
          cache, num_pages, page_num, text, extracted_any_text, ocr_entered,
          outcome, extracted_text, gen_calls, response, synopsis, lines,
          blocks, download_offered, shown>>

secrets == <<correct_password, gemini_api_key>>
locals == <<num_pages, page_num, text, extracted_any_text, ocr_entered>>
callres == <<outcome, extracted_text, cache>>
genvars == <<gen_calls, response, synopsis>>
docvars == <<lines, blocks, download_offered>>

\* values every script run starts from
RunStart ==
  /\ pc = "secret"
  /\ password = ""
  /\ num_pages = 0
  /\ page_num = 0
  /\ text = <<>>
  /\ extracted_any_text = FALSE
  /\ ocr_entered = FALSE
  /\ outcome = "none"
  /\ extracted_text = <<>>
  /\ gen_calls = 0
  /\ response = NoResponse
  /\ synopsis = <<>>
  /\ lines = <<>>
  /\ blocks = <<>>
  /\ download_offered = FALSE
  /\ shown = {}

Init ==
  /\ RunStart
  /\ runs = 1
  /\ correct_password \in SecretValues
  /\ gemini_api_key \in ApiKeyValues
  /\ uploaded_file = NoFile
  /\ cache = NoEntry

(* ------------------- the script up to the file uploader ---------------- *)
\* st.stop(): the run ends here
Stop(msg) ==
  /\ pc' = "stopped"
  /\ shown' = shown \cup {msg}

\* lines 20-24: the shared secret must be configured
CheckSecret ==
  /\ pc = "secret"
  /\ IF Falsy(correct_password)
       THEN Stop("no_secret")
       ELSE pc' = "password" /\ shown' = shown
  /\ UNCHANGED <<runs, secrets, password, uploaded_file, locals, callres, genvars, docvars>>

\* mutant: an empty input is let through
PasswordRejected_emptyPasses(typed, secret) == typed # "" /\ typed # secret

\* line 28: password != correct_password
PasswordRejected(typed, secret) == typed # secret

\* lines 26-32: read the sidebar input and compare it with the secret
PasswordGate ==
  /\ pc = "password"
  /\ \E typed \in TypedPasswords :
       /\ password' = typed
       /\ IF PasswordRejected(typed, correct_password)
            THEN Stop("bad_password")
            ELSE pc' = "apikey" /\ shown' = shown \cup {"password_accepted"}
  /\ UNCHANGED <<runs, secrets, uploaded_file, locals, callres, genvars, docvars>>

\* lines 38-42: the API key must be configured
CheckApiKey ==
  /\ pc = "apikey"
  /\ IF Falsy(gemini_api_key)
       THEN Stop("no_api_key")
       ELSE pc' = "configure" /\ shown' = shown
  /\ UNCHANGED <<runs, secrets, password, uploaded_file, locals, callres, genvars, docvars>>

\* lines 44-48: genai.configure succeeds or raises; a raise stops the run
ConfigureApi ==
  /\ pc = "configure"
  /\ \E ok \in BOOLEAN :
       IF ok THEN pc' = "upload" /\ shown' = shown
             ELSE Stop("configure_error")
  /\ UNCHANGED <<runs, secrets, password, uploaded_file, locals, callres, genvars, docvars>>

\* lines 121-124: the uploader returns the file the widget holds; a session
\* uploads one document and the widget keeps it over the reruns.
UploadFile ==
  /\ pc = "upload"
  /\ \E f \in (IF uploaded_file = NoFile
                 THEN DocsUpTo(ScriptMaxPages) \cup {NoFile}
                 ELSE {uploaded_file}) :
       /\ uploaded_file' = f
       /\ IF f = NoFile
            THEN pc' = "done" /\ shown' = shown
            ELSE pc' = "call_extract" /\ shown' = shown \cup {"uploaded"}
  /\ UNCHANGED <<runs, secrets, password, locals, callres, genvars, docvars>>

(* ----------------------- extract_text_from_pdf ------------------------- *)
\* an exception leaves extract_text_from_pdf: nothing is cached, the script
\* run ends with the exception
Raise ==
  /\ pc' = "crashed"
  /\ outcome' = "raised"
  /\ UNCHANGED <<extracted_text, cache>>

\* the call returns value: st.cache_data stores it, line 126 assigns it
Return(value) ==
  /\ pc' = "check_text"
  /\ outcome' = "returned"
  /\ extracted_text' = value
  /\ cache' = [key |-> uploaded_file, value |-> value, present |-> TRUE]

\* line 64, line 126: a cached result is returned without running the body
CacheHit ==
  /\ pc = "call_extract"
  /\ cache.present /\ cache.key = uploaded_file
  /\ Return(cache.value)
  /\ UNCHANGED <<runs, secrets, password, uploaded_file, locals, genvars, docvars, shown>>

\* line 64, line 126: no cached result, the body runs
CacheMiss ==
  /\ pc = "call_extract"
  /\ ~(cache.present /\ cache.key = uploaded_file)
  /\ pc' = "open"
  /\ UNCHANGED <<runs, secrets, password, uploaded_file, locals, callres, genvars, docvars, shown>>

\* lines 69-71: text = "", PdfReader(BytesIO(...)) parses the bytes or raises
OpenDocument ==
  /\ pc = "open"
  /\ text' = <<>>
  /\ IF uploaded_file.open = "ok"
       THEN pc' = "count" /\ UNCHANGED callres
       ELSE Raise
  /\ UNCHANGED <<runs, secrets, password, uploaded_file, num_pages, page_num,
                 extracted_any_text, ocr_entered, genvars, docvars, shown>>

\* lines 73-77: len(pdf_reader.pages) succeeds or raises
CountPages ==
  /\ pc = "count"
  /\ IF uploaded_file.count = "ok"
       THEN /\ num_pages' = Len(uploaded_file.pages)
            /\ extracted_any_text' = FALSE
            /\ page_num' = 0
            /\ pc' = "loop"
            /\ UNCHANGED callres
       ELSE Raise /\ UNCHANGED <<num_pages, extracted_any_text, page_num>>
  /\ UNCHANGED <<runs, secrets, password, uploaded_file, text, ocr_entered,
                 genvars, docvars, shown>>

\* mutant: range(num_pages + 1)
InRange_offByOne(n, np) == n <= np

\* line 78: page_num in range(num_pages)
InRange(n, np) == n < np

\* line 79: pdf_reader.pages[page_num] returns the page or raises
FetchPage ==
  /\ pc = "loop"
  /\ InRange(page_num, num_pages)
  /\ IF page_num + 1 <= Len(uploaded_file.pages)
          /\ uploaded_file.pages[page_num + 1].fetch = "ok"
       THEN pc' = "extract" /\ UNCHANGED callres
       ELSE Raise
  /\ UNCHANGED <<runs, secrets, password, uploaded_file, locals, genvars, docvars, shown>>

\* line 82: page_text and page_text.strip()
HasText(d) == d.tag = "str" /\ Truthy(d.s) /\ Truthy(Strip(d.s))

\* mutant: text = page_text + "\n" + text
Accumulate_prepend(t, page_text) == page_text \o <<NL>> \o t

\* line 83: text += page_text + "\n"
Accumulate(t, page_text) == t \o page_text \o <<NL>>

\* lines 80-89: direct extraction of the fetched page
ExtractPage ==
  /\ pc = "extract"
  /\ LET d == uploaded_file.pages[page_num + 1].direct IN
       IF d.tag = "raise"
         THEN /\ shown' = shown \cup {"warn_extract_error"}
              /\ UNCHANGED <<text, extracted_any_text>>
         ELSE IF HasText(d)
           THEN /\ text' = Accumulate(text, d.s)
                /\ extracted_any_text' = TRUE
                /\ shown' = shown
           ELSE /\ shown' = shown \cup {"warn_no_direct_text"}
                /\ UNCHANGED <<text, extracted_any_text>>
  /\ page_num' = page_num + 1
  /\ pc' = "loop"
  /\ UNCHANGED <<runs, secrets, password, uploaded_file, num_pages, ocr_entered,
                 callres, genvars, docvars>>

\* mutant: the fallback is taken as soon as one page gave no direct text
NeedsFallback_anyPageMissing ==
  \/ ~extracted_any_text
  \/ \E i \in 1..Len(uploaded_file.pages) : ~HasText(uploaded_file.pages[i].direct)

\* line 92: not extracted_any_text
NeedsFallback == ~extracted_any_text

\* lines 78, 92: the loop is over; choose between the fallback and line 118
Decide ==
  /\ pc = "loop"
  /\ ~InRange(page_num, num_pages)
  /\ IF NeedsFallback
       THEN /\ pc' = "ocr"
            /\ ocr_entered' = TRUE
            /\ shown' = shown \cup {"warn_trying_ocr"}
       ELSE /\ pc' = "return"
            /\ UNCHANGED <<ocr_entered, shown>>
  /\ UNCHANGED <<runs, secrets, password, uploaded_file, num_pages, page_num, text,
                 extracted_any_text, callres, genvars, docvars>>

\* lines 111-113: no page is rendered or recognised, the call returns ""
OcrResult == <<>>

\* lines 93-117: the fallback branch
OcrFallback ==
  /\ pc = "ocr"
  /\ shown' = shown \cup {"ocr_unavailable"}
  /\ Return(OcrResult)
  /\ UNCHANGED <<runs, secrets, password, uploaded_file, locals, genvars, docvars>>

\* line 118: return text
ReturnText ==
  /\ pc = "return"
  /\ Return(text)
  /\ UNCHANGED <<runs, secrets, password, uploaded_file, locals, genvars, docvars, shown>>

(* ------------------------ the script after the call -------------------- *)
\* mutant: the warning is shown but st.stop() is missing
CheckText_noStop ==
  /\ pc = "check_text"
  /\ pc' = "generate"
  /\ shown' = shown \cup (IF ~Truthy(extracted_text) THEN {"no_text"} ELSE {"preview"})
  /\ UNCHANGED <<runs, secrets, password, uploaded_file, locals, callres, genvars, docvars>>

\* lines 128-132: an empty result stops the run before the prompt is built
CheckText ==
  /\ pc = "check_text"
  /\ IF ~Truthy(extracted_text)
       THEN Stop("no_text")
       ELSE pc' = "generate" /\ shown' = shown \cup {"preview"}
  /\ UNCHANGED <<runs, secrets, password, uploaded_file, locals, callres, genvars, docvars>>

\* mutant: a failed call is tried again
AfterServiceFailure_retry == "generate"

\* lines 209-215: after the error is reported the script falls off its end
AfterServiceFailure == "done"

\* lines 135-181, 208-215: build the prompt, call generate_content once and
\* look at the answer
Generate ==
  /\ pc = "generate"
  /\ \E r \in ResponsesUpTo(ScriptMaxSynLen) :
       /\ gen_calls' = gen_calls + 1
       /\ response' = r
       /\ CASE r.kind = "candidates" ->
                 /\ synopsis' = r.text
                 /\ shown' = shown \cup {"synopsis"}
                 /\ pc' = "format_start"
            [] r.kind = "no_candidates" ->
                 /\ shown' = shown \cup {"no_candidates"}
                                   \cup (IF r.blocked THEN {"block_reason"} ELSE {})
                 /\ pc' = AfterServiceFailure
                 /\ UNCHANGED synopsis
            [] OTHER ->
                 \* generate_content raised, or candidates[0].content.parts[0]
                 \* raised: the except clause of line 213
                 /\ shown' = shown \cup {"api_error"}
                 /\ pc' = AfterServiceFailure
                 /\ UNCHANGED synopsis
  /\ UNCHANGED <<runs, secrets, password, uploaded_file, locals, callres, docvars>>

(* --------------------------- synopsis to docx -------------------------- *)
Heading(level, t) == [kind |-> "heading", level |-> level, style |-> "Heading", text |-> t]
Paragraph(t, style) == [kind |-> "paragraph", level |-> 0, style |-> style, text |-> t]

\* line 185: doc.add_heading('Meeting Synopsis', level=0)
TitleBlock ==
  Heading(0, <<"M", "e", "e", "t", "i", "n", "g", " ", "S", "y", "n", "o", "p", "s", "i", "s">>)

\* index of the first sep in s, 0 when there is none
FirstIndex(s, sep) ==
  IF \E i \in 1..Len(s) : s[i] = sep
    THEN CHOOSE i \in 1..Len(s) : s[i] = sep /\ \A j \in 1..(i - 1) : s[j] # sep
    ELSE 0

\* mutant: synopsis.splitlines(), which has no line for an empty text nor after
\* a final newline
RECURSIVE SplitLines_splitlines(_)
SplitLines_splitlines(s) ==
  LET i == FirstIndex(s, NL) IN
    IF s = <<>> THEN <<>>
    ELSE IF i = 0 THEN <<s>>
    ELSE <<SubSeq(s, 1, i - 1)>> \o SplitLines_splitlines(DropFirst(s, i))

\* line 187: synopsis.split('\n')
RECURSIVE SplitLines(_)
SplitLines(s) ==
  LET i == FirstIndex(s, NL) IN
    IF i = 0 THEN <<s>>
    ELSE <<SubSeq(s, 1, i - 1)>> \o SplitLines(DropFirst(s, i))

\* mutant: the level-1 test is line.startswith('#') and comes first
Classify_hashFirst(line) ==
  IF StartsWith(line, <<"#">>) THEN Heading(1, Strip(DropFirst(line, 1)))
  ELSE IF StartsWith(line, <<"#", "#", " ">>) THEN Heading(2, Strip(DropFirst(line, 3)))
  ELSE IF StartsWith(line, <<"-", " ">>) THEN Paragraph(Strip(DropFirst(line, 2)), "List Bullet")
  ELSE Paragraph(Strip(line), "Normal")

\* lines 188-195: the block one line becomes
Classify(line) ==
  IF StartsWith(line, <<"#", "#", " ">>) THEN Heading(2, Strip(DropFirst(line, 3)))
  ELSE IF StartsWith(line, <<"#", " ">>) THEN Heading(1, Strip(DropFirst(line, 2)))
  ELSE IF StartsWith(line, <<"-", " ">>) THEN Paragraph(Strip(DropFirst(line, 2)), "List Bullet")
  ELSE Paragraph(Strip(line), "Normal")

\* lines 183-187: a new Document with its title, and the lines to convert
FormatStart ==
  /\ pc = "format_start"
  /\ blocks' = <<TitleBlock>>
  /\ lines' = SplitLines(synopsis)
  /\ pc' = "format_line"
  /\ UNCHANGED <<runs, secrets, password, uploaded_file, locals, callres, genvars,
                 download_offered, shown>>

\* lines 187-195: one iteration of the loop
FormatLine ==
  /\ pc = "format_line"
  /\ lines # <<>>
  /\ blocks' = Append(blocks, Classify(Head(lines)))
  /\ lines' = Tail(lines)
  /\ UNCHANGED <<pc, runs, secrets, password, uploaded_file, locals, callres, genvars,
                 download_offered, shown>>

\* lines 197-206: save the document and render the download button
SaveDoc ==
  /\ pc = "format_line"
  /\ lines = <<>>
  /\ download_offered' = TRUE
  /\ pc' = "done"
  /\ UNCHANGED <<runs, secrets, password, uploaded_file, locals, callres, genvars,
                 lines, blocks, shown>>

(* ------------------------------- reruns -------------------------------- *)
RunOver == pc \in {"done", "stopped", "crashed"}

\* any interaction reruns the script from its first line; the secrets, the
\* cache and the uploaded document outlive the run
Rerun ==
  /\ RunOver
  /\ runs < MaxRuns
  /\ runs' = runs + 1
  /\ pc' = "secret"
  /\ password' = ""
  /\ num_pages' = 0
  /\ page_num' = 0
  /\ text' = <<>>
  /\ extracted_any_text' = FALSE
  /\ ocr_entered' = FALSE
  /\ outcome' = "none"
  /\ extracted_text' = <<>>
  /\ gen_calls' = 0
  /\ response' = NoResponse
  /\ synopsis' = <<>>
  /\ lines' = <<>>
  /\ blocks' = <<>>
  /\ download_offered' = FALSE
  /\ shown' = {}
  /\ UNCHANGED <<secrets, uploaded_file, cache>>

(* --------------------------- specifications ---------------------------- *)
NextExtract ==
  \/ OpenDocument
  \/ CountPages
  \/ FetchPage
  \/ ExtractPage
  \/ Decide
  \/ OcrFallback
  \/ ReturnText

NextFormat ==
  \/ FormatStart
  \/ FormatLine
  \/ SaveDoc

Next ==
  \/ CheckSecret
  \/ PasswordGate
  \/ CheckApiKey
  \/ ConfigureApi
  \/ UploadFile
  \/ CacheHit
  \/ CacheMiss
  \/ NextExtract
  \/ CheckText
  \/ Generate
  \/ NextFormat
  \/ Rerun

\* a session of script runs
Spec == Init /\ [][Next]_vars

\* the state in which the body of extract_text_from_pdf starts, behind the gate
AtCallEntry ==
  /\ runs = 1
  /\ correct_password = "s1"
  /\ password = "s1"
  /\ gemini_api_key = "k1"
  /\ cache = NoEntry
  /\ num_pages = 0
  /\ page_num = 0
  /\ text = <<>>
  /\ extracted_any_text = FALSE
  /\ ocr_entered = FALSE
  /\ outcome = "none"
  /\ extracted_text = <<>>
  /\ gen_calls = 0
  /\ response = NoResponse
  /\ synopsis = <<>>
  /\ lines = <<>>
  /\ blocks = <<>>
  /\ download_offered = FALSE
  /\ shown = {"password_accepted", "uploaded"}

\* extract_text_from_pdf on every document of up to MaxPages pages
InitExtract ==
  /\ AtCallEntry
  /\ pc = "open"
  /\ uploaded_file \in DocsUpTo(MaxPages)

SpecExtract == InitExtract /\ [][NextExtract]_vars

\* a document whose only page holds the text "a"
OnePageDoc ==
  [open |-> "ok", count |-> "ok",
   pages |-> <<[fetch |-> "ok", direct |-> [tag |-> "str", s |-> <<"a">>], ocr |-> <<>>]>>]

\* the docx conversion on every synopsis of up to MaxSynLen characters: the
\* state after the service answered with that synopsis for OnePageDoc
InitFormat ==
  /\ runs = 1
  /\ correct_password = "s1"
  /\ password = "s1"
  /\ gemini_api_key = "k1"
  /\ uploaded_file = OnePageDoc
  /\ num_pages = 1
  /\ page_num = 1
  /\ text = <<"a", NL>>
  /\ extracted_any_text = TRUE
  /\ ocr_entered = FALSE
  /\ outcome = "returned"
  /\ extracted_text = <<"a", NL>>
  /\ cache = [key |-> OnePageDoc, value |-> <<"a", NL>>, present |-> TRUE]
  /\ gen_calls = 1
  /\ synopsis \in SynopsesUpTo(MaxSynLen)
  /\ response = [kind |-> "candidates", blocked |-> FALSE, text |-> synopsis]
  /\ lines = <<>>
  /\ blocks = <<>>
  /\ download_offered = FALSE
  /\ shown = {"password_accepted", "uploaded", "preview", "synopsis"}
  /\ pc = "format_start"

SpecFormat == InitFormat /\ [][NextFormat]_vars

(* ======================================================================= *)
(*                    claims about extract_text_from_pdf                   *)
(* ======================================================================= *)
\* the page can be fetched and its direct text is non-empty after trimming
YieldsDirectText(p) ==
  /\ p.fetch = "ok"
  /\ p.direct.tag = "str"
  /\ \E i \in 1..Len(p.direct.s) : p.direct.s[i] \notin Whitespace

\* every page of the document can be fetched
Fetchable(d) ==
  /\ d.open = "ok"
  /\ d.count = "ok"
  /\ \A i \in 1..Len(d.pages) : d.pages[i].fetch = "ok"

\* the direct text of the pages that yield some, in page order, each followed
\* by a newline
RECURSIVE ExpectedDirect(_)
ExpectedDirect(ps) ==
  IF ps = <<>> THEN <<>>
  ELSE (IF YieldsDirectText(Head(ps)) THEN Head(ps).direct.s \o <<NL>> ELSE <<>>)
         \o ExpectedDirect(Tail(ps))

\* what recognition reads on the pages, in page order, each followed by a newline
RECURSIVE ExpectedOcr(_)
ExpectedOcr(ps) ==
  IF ps = <<>> THEN <<>>
  ELSE (IF Head(ps).ocr # <<>> THEN Head(ps).ocr \o <<NL>> ELSE <<>>)
         \o ExpectedOcr(Tail(ps))

\* C1: for a document of which at least one page yields direct text that is
\* non-empty after trimming, what the call returns is non-empty and equal to
\* the direct texts of those pages in page order, each followed by a newline;
\* pages whose extraction returned nothing or raised contribute nothing.  When
\* every page of the document can be fetched, the call does return: it neither
\* raises nor gets stuck.
C1_DirectConcatenation ==
  (\E i \in 1..Len(uploaded_file.pages) : YieldsDirectText(uploaded_file.pages[i]))
  => /\ (outcome = "returned") =>
          /\ extracted_text = ExpectedDirect(uploaded_file.pages)
          /\ extracted_text # <<>>
     /\ Fetchable(uploaded_file) =>
          /\ outcome # "raised"
          /\ (outcome = "none") => ENABLED NextExtract

\* C1 witness: page 1 raises in extract_text(), page 2 holds "b ", and the call
\* returned "b \n"
C1_Witness ==
  /\ outcome = "returned"
  /\ Len(uploaded_file.pages) = 2
  /\ uploaded_file.pages[1].fetch = "ok"
  /\ uploaded_file.pages[1].direct.tag = "raise"
  /\ YieldsDirectText(uploaded_file.pages[2])
  /\ extracted_text = <<"b", " ", NL>>

\* C2 (as claimed): no exception escapes extract_text_from_pdf, whatever step
\* fails.
C2_NoExceptionEscapes == outcome # "raised"

\* C3 (as claimed): when no page yields direct text, the call returns the
\* page-ordered concatenation of what recognition reads on the pages, so the
\* result is non-empty whenever recognition reads something on some page.
C3_FallbackReturnsRecognition ==
  (/\ outcome = "returned"
   /\ Fetchable(uploaded_file)
   /\ \A i \in 1..Len(uploaded_file.pages) : ~YieldsDirectText(uploaded_file.pages[i]))
  => extracted_text = ExpectedOcr(uploaded_file.pages)

\* C4: for a document that opens and has zero pages the call does not raise,
\* never fetches or extracts a page, takes the no-text branch and returns "".
C4_ZeroPages ==
  (/\ uploaded_file.open = "ok"
   /\ uploaded_file.count = "ok"
   /\ uploaded_file.pages = <<>>)
  => /\ outcome # "raised"
     /\ pc # "extract"
     /\ page_num = 0
     /\ (outcome = "none") => ENABLED NextExtract
     /\ (outcome = "returned") => (ocr_entered /\ extracted_text = <<>>)

\* C4 witness: the call returned for a zero-page document
C4_Witness ==
  /\ outcome = "returned"
  /\ uploaded_file.open = "ok"
  /\ uploaded_file.count = "ok"
  /\ uploaded_file.pages = <<>>
  /\ num_pages = 0

\* C8: the fallback branch is entered only when no page yielded direct text,
\* and once the loop is over it is entered exactly then; when some page
\* yielded direct text the call returns the direct texts alone, the other
\* pages being absent, and never what recognition would read.
C8_AllOrNothingFallback ==
  LET some == \E i \in 1..Len(uploaded_file.pages) :
                YieldsDirectText(uploaded_file.pages[i])
  IN /\ ocr_entered => ~some
     /\ pc \in {"ocr", "return"} \/ outcome = "returned" => (ocr_entered <=> ~some)
     /\ outcome = "returned" /\ some =>
          /\ ~ocr_entered
          /\ "ocr_unavailable" \notin shown
          /\ extracted_text = ExpectedDirect(uploaded_file.pages)

\* C8 witness: a two-page document, one page with direct text and one without
\* but readable by recognition; the call returned without the fallback
C8_Witness ==
  /\ outcome = "returned"
  /\ ~ocr_entered
  /\ Len(uploaded_file.pages) = 2
  /\ YieldsDirectText(uploaded_file.pages[1])
  /\ ~YieldsDirectText(uploaded_file.pages[2])
  /\ uploaded_file.pages[2].ocr # <<>>
  /\ extracted_text = <<"a", NL>>

(* ======================================================================= *)
(*                    claims about the docx conversion                     *)
(* ======================================================================= *)
\* positions of the newlines of s
NewlinesOf(s) == {i \in 1..Len(s) : s[i] = NL}

\* number of lines of s: one more than its newlines
NumLines(s) == Cardinality(NewlinesOf(s)) + 1

\* position of the k-th newline of s
NthNewline(s, k) ==
  CHOOSE p \in NewlinesOf(s) : Cardinality({j \in NewlinesOf(s) : j <= p}) = k

\* the k-th line of s: what lies between its (k-1)-th and its k-th newline
NthLine(s, k) ==
  LET first == IF k = 1 THEN 1 ELSE NthNewline(s, k - 1) + 1
      last == IF k = NumLines(s) THEN Len(s) ELSE NthNewline(s, k) - 1
  IN IF first > last THEN <<>> ELSE SubSeq(s, first, last)

\* t is s without its leading and trailing whitespace
IsTrimOf(t, s) ==
  \/ /\ t = <<>>
     /\ \A i \in 1..Len(s) : s[i] \in Whitespace
  \/ \E i \in 1..Len(s) : \E j \in i..Len(s) :
       /\ t = SubSeq(s, i, j)
       /\ s[i] \notin Whitespace
       /\ s[j] \notin Whitespace
       /\ \A k \in 1..(i - 1) : s[k] \in Whitespace
       /\ \A k \in (j + 1)..Len(s) : s[k] \in Whitespace

\* line starts with the characters of prefix
HasPrefix(line, prefix) ==
  /\ Len(line) >= Len(prefix)
  /\ \A i \in 1..Len(prefix) : line[i] = prefix[i]

\* what is left of line after its first n characters
After(line, n) == [i \in 1..(Len(line) - n) |-> line[i + n]]

\* block b is what the prefix rule, first match first, asks for line
BlockFollowsRule(b, line) ==
  IF HasPrefix(line, <<"#", "#", " ">>)
    THEN b.kind = "heading" /\ b.level = 2 /\ IsTrimOf(b.text, After(line, 3))
  ELSE IF HasPrefix(line, <<"#", " ">>)
    THEN b.kind = "heading" /\ b.level = 1 /\ IsTrimOf(b.text, After(line, 2))
  ELSE IF HasPrefix(line, <<"-", " ">>)
    THEN b.kind = "paragraph" /\ b.style = "List Bullet" /\ IsTrimOf(b.text, After(line, 2))
  ELSE b.kind = "paragraph" /\ b.style = "Normal" /\ IsTrimOf(b.text, line)

\* C5: after the title, the document holds one block per line of the synopsis
\* (its newline-separated pieces), in line order, each following the prefix
\* rule: "## " a level-2 heading, else "# " a level-1 heading, else "- " a
\* bulleted paragraph, else a plain paragraph, with the trimmed remainder (or
\* line); while the loop runs, the blocks made so far are those of the first
\* lines and the lines left are the remaining ones.
C5_OneBlockPerLine ==
  pc \in {"format_line", "done"} /\ blocks # <<>> =>
    LET made == Len(blocks) - 1 IN
      /\ made + Len(lines) = NumLines(synopsis)
      /\ pc = "done" => made = NumLines(synopsis)
      /\ \A k \in 1..made : BlockFollowsRule(blocks[k + 1], NthLine(synopsis, k))
      /\ \A k \in 1..Len(lines) : lines[k] = NthLine(synopsis, made + k)
      /\ \A k \in 1..made :
           HasPrefix(NthLine(synopsis, k), <<"#", "#", " ">>) =>
             ~(blocks[k + 1].kind = "heading" /\ blocks[k + 1].level = 1)

\* C5 witness: the synopsis "## a" was converted to one level-2 heading "a"
C5_Witness ==
  /\ pc = "done"
  /\ synopsis = <<"#", "#", " ", "a">>
  /\ Len(blocks) = 2
  /\ blocks[2].kind = "heading"
  /\ blocks[2].level = 2
  /\ blocks[2].text = <<"a">>

\* C6 (as claimed): for an empty synopsis the generated document holds no
\* heading and no paragraph.
C6_EmptySynopsisNoBlocks ==
  pc = "done" /\ download_offered /\ synopsis = <<>> => blocks = <<>>

\* C6 (amended): for an empty synopsis the generated document holds the title
\* heading followed by exactly one empty plain paragraph.
C6_EmptySynopsisOneParagraph ==
  pc = "done" /\ download_offered /\ synopsis = <<>> =>
    /\ Len(blocks) = 2
    /\ blocks[1].kind = "heading" /\ blocks[1].level = 0
    /\ blocks[2].kind = "paragraph"
    /\ blocks[2].style = "Normal"
    /\ blocks[2].text = <<>>

\* C6 witness: the document of an empty synopsis was saved and offered
C6_Witness ==
  /\ pc = "done"
  /\ download_offered
  /\ synopsis = <<>>
  /\ Len(blocks) = 2

(* ======================================================================= *)
(*                         claims about the script                         *)
(* ======================================================================= *)
\* the run has got past the comparison of line 28, or shows a trace of
\* processing: the uploader, the extraction, a service call, a document
Processing ==
  \/ pc \notin {"secret", "password", "stopped"}
  \/ "uploaded" \in shown
  \/ outcome # "none"
  \/ gen_calls > 0
  \/ response # NoResponse
  \/ blocks # <<>>
  \/ download_offered

\* C7: whatever a run processes, it processes after the entered password was
\* found equal to a configured secret; a run whose secret is missing or whose
\* entered password differs stops before the uploader, the extraction and any
\* external call.
C7_AccessGate ==
  /\ Processing =>
       /\ correct_password \notin {NoneVal, ""}
       /\ password = correct_password
       /\ "password_accepted" \in shown
  /\ "no_secret" \in shown \/ "bad_password" \in shown =>
       /\ pc = "stopped"
       /\ "uploaded" \notin shown
       /\ outcome = "none"
       /\ gen_calls = 0
       /\ ~download_offered

\* C7 witness: a document is offered for download, behind an accepted password
C7_Witness ==
  /\ download_offered
  /\ password = "s1"
  /\ correct_password = "s1"
  /\ gen_calls = 1

\* C9: once the call has returned empty text for the uploaded document, the
\* run is at the test of line 128 or stopped by it: no service call is made,
\* no synopsis is shown and no document is built or offered in that run.
C9_EmptyTextStopsRun ==
  outcome = "returned" /\ extracted_text = <<>> =>
    /\ pc \in {"check_text", "stopped"}
    /\ pc = "stopped" => "no_text" \in shown
    /\ gen_calls = 0
    /\ response = NoResponse
    /\ "synopsis" \notin shown
    /\ blocks = <<>>
    /\ ~download_offered

\* C9 witness: the run was stopped after the call returned empty text
C9_Witness ==
  /\ pc = "stopped"
  /\ outcome = "returned"
  /\ extracted_text = <<>>
  /\ "no_text" \in shown

\* C10: a run calls the service at most once; after a service exception or an
\* answer without candidates the run is over with the error (and the block
\* reason, when there is one) reported, without a second call and without a
\* download; a download is offered only after an answer with a candidate.
C10_SingleCallNoRetry ==
  /\ gen_calls <= 1
  /\ gen_calls = 1 <=> response # NoResponse
  /\ download_offered => gen_calls = 1 /\ response.kind = "candidates"
  /\ response.kind \in {"exception", "no_candidates"} =>
       /\ pc = "done"
       /\ ~download_offered
       /\ blocks = <<>>
       /\ "synopsis" \notin shown
       /\ response.kind = "exception" => "api_error" \in shown
       /\ response.kind = "no_candidates" => "no_candidates" \in shown
       /\ response.blocked => "block_reason" \in shown

\* C10 witness: the service raised, the run ended after that single call
C10_Witness ==
  /\ pc = "done"
  /\ gen_calls = 1
  /\ response.kind = "exception"
  /\ "api_error" \in shown
  /\ ~download_offered

====
